---- MODULE Spec2Model ----
(***************************************************************************)
(* Model of circular_buffer<T> (src/circular_buffer.h): a ring buffer over *)
(* a raw block obtained with operator new, with placement construction and *)
(* destruction of single slots, growth by reallocation (reserve), and      *)
(* random-access iterators that carry (ind, cap, data, ind_begin).         *)
(*                                                                         *)
(* A buffer is the record of its five fields.  The heap maps an address to *)
(* the block allocated there (one entry per slot: a constructed value or   *)
(* NoVal for a raw slot) or to <<>> when nothing is allocated there.       *)
(* The functions of the source are operators over a context                *)
(*   c = [b, h, fuel, out, stage, ret]                                     *)
(* b the buffer operated on, h the heap, fuel the number of fallible steps  *)
(* (operator new, copy construction or copy assignment of a T) that still  *)
(* succeed before one throws (NoFail: none throws), out the way the call   *)
(* ended, stage the place of the throw, ret the iterator returned.         *)
(***************************************************************************)
EXTENDS Integers, Sequences, FiniteSets, TLC

\* ---------------------------------------------------------------- bounds
\* pushes and inserts are issued only while size() < MaxSize
MaxSize == 4
\* addresses the allocator can hand out
NumAddr == 3
\* the latest fallible step at which a failure is injected
MaxFuel == 4
\* pushes and inserts on either buffer of the two-buffer specification
MaxSizeCopy == 2
\* pushes of the growth specification are issued only while size() < MaxPush
MaxPush == 8
\* pushes of the iterator specification are issued only while size() < MaxSizeIter
MaxSizeIter == 3
\* the shifting specification starts from buffers of up to MaxShift elements
MaxShift == 11
\* the width of size_t and ptrdiff_t in the model, in bits (64 in the build;
\* the arithmetic of the model checker is 32 bits wide)
SizeBits == 16

\* ---------------------------------------------------------------- values
Values == {1, 2}
NoVal == 0
nullptr == 0
Addr == 1..NumAddr
Names == {"a", "b"}
NoFail == 0 - 1

Min(S) == CHOOSE m \in S : \A n \in S : m <= n

\* circular_buffer() : sz(0), cap(0), data(nullptr), ind_begin(0), ind_end(0)
circular_buffer == [sz |-> 0, cap |-> 0, data |-> nullptr, ind_begin |-> 0, ind_end |-> 0]

Ctx(b, h, fuel) == [b |-> b, h |-> h, fuel |-> fuel, out |-> "ok", stage |-> "none", ret |-> <<>>]

\* one fallible step succeeded
Burn(c) == IF c.fuel > 0 THEN [c EXCEPT !.fuel = @ - 1] ELSE c

\* the fallible step throws
Throw(c, stage) == [c EXCEPT !.out = "throw", !.stage = stage]

\* operator new: the first free address, scanning from address r cyclically;
\* nullptr when none is free (std::bad_alloc)
Alloc(h, r) ==
  LET free == {i \in 0..(NumAddr - 1) : h[((r - 1 + i) % NumAddr) + 1] = <<>>}
  IN IF free = {} THEN nullptr ELSE ((r - 1 + Min(free)) % NumAddr) + 1

\* data[i] of the block at address data
Slot(h, data, i) == h[data][i + 1]

\* the slots (begin_index + i) mod capacity, i < size, in logical order
Contents(b, h) == [i \in 1..b.sz |-> Slot(h, b.data, (b.ind_begin + i - 1) % b.cap)]

\* ------------------------------------------------------------- iterators
iterator(ind, cap, data, ind_begin) == [ind |-> ind, cap |-> cap, data |-> data, ind_begin |-> ind_begin]

\* an increment that does not wrap at the end of the block
it_inc_nowrap(it) == [it EXCEPT !.ind = it.ind + 1]

it_inc(it) == [it EXCEPT !.ind = (it.ind + 1) % it.cap]

it_dec(it) == [it EXCEPT !.ind = (it.ind - 1 + it.cap) % it.cap]

it_eq(x, y) == x.ind = y.ind /\ x.data = y.data

it_plus(it, ch) == iterator((it.ind + ch) % it.cap, it.cap, it.data, it.ind_begin)

it_minus(it, ch) == iterator((it.ind - ch + it.cap) % it.cap, it.cap, it.data, it.ind_begin)

\* a position that is the physical index
get_pos_physical(it) == it.ind % it.cap

get_pos(it) == (it.ind + it.cap - it.ind_begin) % it.cap

\* operator<
it_lt(x, y) == get_pos(x) < get_pos(y)

\* the size_t value x - y: the difference modulo 2^SizeBits
size_sub(x, y) == (x - y + 2^SizeBits) % 2^SizeBits

\* the conversion of a size_t value to difference_type (two's complement)
to_difference(u) == IF u >= 2^(SizeBits - 1) THEN u - 2^SizeBits ELSE u

\* a - b of two iterators: a.get_pos() - b.get_pos() in size_t, returned as
\* difference_type
it_diff(x, y) == to_difference(size_sub(get_pos(x), get_pos(y)))

begin(b) == iterator(b.ind_begin, b.cap, b.data, b.ind_begin)

end(b) == iterator(b.ind_end, b.cap, b.data, b.ind_begin)

\* rbegin() and rend(): std::reverse_iterator over end() and begin(); a
\* reverse iterator is modelled by the iterator it wraps (its base)
rbegin(b) == end(b)

rend(b) == begin(b)

\* *it is a constructed element of an allocated block
Live(h, it) ==
  /\ it.data # nullptr
  /\ h[it.data] # <<>>
  /\ it.ind < Len(h[it.data])
  /\ h[it.data][it.ind + 1] # NoVal

\* ------------------------------------------------------- basic operations
swap(this, oth) == [this |-> oth, oth |-> this]

\* pop_back that moves the cursor and leaves the element constructed
pop_back_keep(c) ==
  IF ~(c.b.sz > 0) THEN [c EXCEPT !.out = "assert"]
  ELSE [c EXCEPT !.b.sz = @ - 1, !.b.ind_end = (@ - 1 + c.b.cap) % c.b.cap]

pop_back(c) ==
  IF ~(c.b.sz > 0) THEN [c EXCEPT !.out = "assert"]
  ELSE [c EXCEPT !.b.sz = @ - 1,
                 !.b.ind_end = (@ - 1 + c.b.cap) % c.b.cap,
                 !.h[c.b.data][((c.b.ind_end - 1 + c.b.cap) % c.b.cap) + 1] = NoVal]

pop_front(c) ==
  IF ~(c.b.sz > 0) THEN [c EXCEPT !.out = "assert"]
  ELSE [c EXCEPT !.b.sz = @ - 1,
                 !.h[c.b.data][c.b.ind_begin + 1] = NoVal,
                 !.b.ind_begin = (@ + 1) % c.b.cap]

RECURSIVE clear(_)
clear(c) ==
  IF c.b.sz > 0 THEN clear(pop_back(c))
  ELSE [c EXCEPT !.h = IF c.b.data = nullptr THEN @ ELSE [@ EXCEPT ![c.b.data] = <<>>],
                 !.b = circular_buffer]

\* ~circular_buffer() of a local buffer t that shares the heap h
Destroy(t, h) == clear(Ctx(t, h, NoFail)).h

RECURSIVE migrate(_, _, _)
\* a migration that copies slot i of the old block, not the i-th element
migrate_physical(src, t, i) ==
  IF ~(i < src.sz) THEN t
  ELSE IF t.fuel = 0 THEN Throw(t, "migrate")
  ELSE migrate(src,
               [Burn(t) EXCEPT !.h[t.b.data][t.b.ind_end + 1] = Slot(t.h, src.data, i),
                               !.b.ind_end = @ + 1,
                               !.b.sz = @ + 1],
               i + 1)

\* the loop of reserve: t is the context of tmp, src the buffer migrated from
migrate(src, t, i) ==
  IF ~(i < src.sz) THEN t
  ELSE IF t.fuel = 0 THEN Throw(t, "migrate")
  ELSE migrate(src,
               [Burn(t) EXCEPT !.h[t.b.data][t.b.ind_end + 1] =
                                   Slot(t.h, src.data, (src.ind_begin + i) % src.cap),
                               !.b.ind_end = @ + 1,
                               !.b.sz = @ + 1],
               i + 1)

\* reserve that holds the new block by a bare pointer: a throw leaks it
reserve_adopt_leak(c, t) ==
  IF t.out # "ok"
  THEN [t EXCEPT !.b = c.b]
  ELSE [t EXCEPT !.b = swap(c.b, t.b).this, !.h = Destroy(swap(c.b, t.b).oth, t.h)]

\* reserve after the loop: t is the context of tmp.  A throw unwinds tmp
\* (its destructor clears it); otherwise swap(tmp), and the destructor of
\* tmp clears what the buffer held before.
reserve_adopt(c, t) ==
  IF t.out # "ok"
  THEN [t EXCEPT !.b = c.b, !.h = Destroy(t.b, t.h)]
  ELSE [t EXCEPT !.b = swap(c.b, t.b).this, !.h = Destroy(swap(c.b, t.b).oth, t.h)]

\* reserve from operator new on: addr is the address operator new returns
reserve_new(c, n, addr) ==
  IF c.fuel = 0 \/ addr = nullptr
  THEN [Throw(c, "alloc") EXCEPT !.h = Destroy([circular_buffer EXCEPT !.cap = n], c.h)]
  ELSE reserve_adopt(c, migrate(c.b,
                                [Burn(c) EXCEPT !.b = [circular_buffer EXCEPT !.cap = n, !.data = addr],
                                                !.h[addr] = [i \in 1..n |-> NoVal]],
                                0))

reserve(c, n, r) == IF c.b.sz >= n THEN c ELSE reserve_new(c, n, Alloc(c.h, r))

\* push_back after the growth step: g is the context the growth step left
construct_back(g, value) ==
  IF g.out # "ok" THEN g
  ELSE IF g.fuel = 0 THEN Throw(g, "value")
  ELSE [Burn(g) EXCEPT !.h[g.b.data][g.b.ind_end + 1] = value,
                       !.b.ind_end = (@ + 1) % g.b.cap,
                       !.b.sz = @ + 1]

\* push_back that grows from the size, as push_front does
push_back_by_size(c, value, r) ==
  construct_back(IF c.b.sz = 0 THEN reserve(c, 4, r)
                 ELSE IF c.b.sz = c.b.cap - 1 THEN reserve(c, c.b.sz * 2, r)
                 ELSE c,
                 value)

push_back(c, value, r) ==
  construct_back(IF c.b.sz = 0 THEN reserve(c, 4, r)
                 ELSE IF c.b.sz = c.b.cap - 1 THEN reserve(c, c.b.cap * 2, r)
                 ELSE c,
                 value)

\* push_front that constructs at begin_index itself, over the first element
construct_front_over(g, value) ==
  IF g.out # "ok" THEN g
  ELSE IF g.fuel = 0 THEN Throw(g, "value")
  ELSE [Burn(g) EXCEPT !.h[g.b.data][g.b.ind_begin + 1] = value,
                       !.b.ind_begin = (@ - 1 + g.b.cap) % g.b.cap,
                       !.b.sz = @ + 1]

\* push_front after the growth step
construct_front(g, value) ==
  IF g.out # "ok" THEN g
  ELSE IF g.fuel = 0 THEN Throw(g, "value")
  ELSE [Burn(g) EXCEPT !.h[g.b.data][((g.b.ind_begin - 1 + g.b.cap) % g.b.cap) + 1] = value,
                       !.b.ind_begin = (@ - 1 + g.b.cap) % g.b.cap,
                       !.b.sz = @ + 1]

\* push_front that grows only once the block is full
push_front_late(c, value, r) ==
  construct_front(IF c.b.sz = 0 THEN reserve(c, 4, r)
                  ELSE IF c.b.sz = c.b.cap THEN reserve(c, c.b.sz * 2, r)
                  ELSE c,
                  value)

push_front(c, value, r) ==
  construct_front(IF c.b.sz = 0 THEN reserve(c, 4, r)
                  ELSE IF c.b.sz = c.b.cap - 1 THEN reserve(c, c.b.sz * 2, r)
                  ELSE c,
                  value)

\* ------------------------------------------------------------- accessors
\* the calls return a reference; the context's ret holds the value read
back(c) ==
  IF ~(c.b.sz > 0) THEN [c EXCEPT !.out = "assert"]
  ELSE [c EXCEPT !.ret = <<Slot(c.h, c.b.data, (c.b.ind_end - 1 + c.b.cap) % c.b.cap)>>]

front(c) ==
  IF ~(c.b.sz > 0) THEN [c EXCEPT !.out = "assert"]
  ELSE [c EXCEPT !.ret = <<Slot(c.h, c.b.data, c.b.ind_begin)>>]

index(c, ind) ==
  IF ~(ind < c.b.sz) THEN [c EXCEPT !.out = "assert"]
  ELSE [c EXCEPT !.ret = <<Slot(c.h, c.b.data, (c.b.ind_begin + ind) % c.b.cap)>>]

\* ------------------------------------------------------ copy, assignment
\* circular_buffer(oth): the loop of push_back(oth[i]) on a default-
\* constructed buffer.  When a push throws, the delegating constructor has
\* completed, so the destructor of the new buffer runs: p is the context
\* the i-th push left.
RECURSIVE copy_loop(_, _, _, _)
\* a copy whose failed push leaves the new buffer as it is, undestroyed
copy_loop_leak(p, oth, i, r) ==
  IF p.out # "ok" THEN p
  ELSE IF ~(i < oth.sz) THEN p
  ELSE copy_loop(push_back(p, Slot(p.h, oth.data, (oth.ind_begin + i) % oth.cap), r),
                 oth, i + 1, r)

copy_loop(p, oth, i, r) ==
  IF p.out # "ok" THEN clear(p)
  ELSE IF ~(i < oth.sz) THEN p
  ELSE copy_loop(push_back(p, Slot(p.h, oth.data, (oth.ind_begin + i) % oth.cap), r),
                 oth, i + 1, r)

\* a copy that constructs the buffer and copies no element
copy_construct_empty(oth, h, fuel, r) == Ctx(circular_buffer, h, fuel)

copy_construct(oth, h, fuel, r) == copy_loop(Ctx(circular_buffer, h, fuel), oth, 0, r)

\* operator= after the copy: t is the context of tmp; swap(tmp); ~tmp
assign_adopt(c, t) ==
  IF t.out # "ok" THEN [t EXCEPT !.b = c.b]
  ELSE [t EXCEPT !.b = swap(c.b, t.b).this, !.h = Destroy(swap(c.b, t.b).oth, t.h)]

assign(c, oth, r) == assign_adopt(c, copy_construct(oth, c.h, c.fuel, r))

\* ---------------------------------------------------------- insert, erase
\* auto tmp = *it1; *it1 = *it2; *it2 = tmp;  three fallible copies
elem_swap(c, it1, it2) ==
  IF c.fuel \in {0, 1} THEN Throw(c, "walk")
  ELSE IF c.fuel = 2
       THEN [Throw(c, "walk") EXCEPT !.h[it1.data][it1.ind + 1] = Slot(c.h, it2.data, it2.ind)]
       ELSE [Burn(Burn(Burn(c))) EXCEPT !.h[it1.data][it1.ind + 1] = Slot(c.h, it2.data, it2.ind),
                                        !.h[it2.data][it2.ind + 1] = Slot(c.h, it1.data, it1.ind)]

\* a read of a raw slot or of a released block
Undefined(c) == [c EXCEPT !.out = "ub"]

\* insert, front half: while (it2 != pos) { swap; it1++; it2++; } return it1;
RECURSIVE insert_walk_front(_, _, _, _)
insert_walk_front(c, it1, it2, pos) ==
  IF c.out # "ok" THEN c
  ELSE IF it_eq(it2, pos) THEN [c EXCEPT !.ret = <<it1>>]
  ELSE IF ~Live(c.h, it1) \/ ~Live(c.h, it2) THEN Undefined(c)
  ELSE insert_walk_front(elem_swap(c, it1, it2), it_inc(it1), it_inc(it2), pos)

\* insert, back half: while (it2 != pos) { swap; it1--; it2--; } return it2;
RECURSIVE insert_walk_back(_, _, _, _)
insert_walk_back(c, it1, it2, pos) ==
  IF c.out # "ok" THEN c
  ELSE IF it_eq(it2, pos) THEN [c EXCEPT !.ret = <<it2>>]
  ELSE IF ~Live(c.h, it1) \/ ~Live(c.h, it2) THEN Undefined(c)
  ELSE insert_walk_back(elem_swap(c, it1, it2), it_dec(it1), it_dec(it2), pos)

\* return begin(); after the push_front that left p
insert_at_begin(p) == IF p.out # "ok" THEN p ELSE [p EXCEPT !.ret = <<begin(p.b)>>]

\* insert at end() that returns end() itself
insert_at_end_past(p) == IF p.out # "ok" THEN p ELSE [p EXCEPT !.ret = <<end(p.b)>>]

\* return --end(); after the push_back that left p
insert_at_end(p) == IF p.out # "ok" THEN p ELSE [p EXCEPT !.ret = <<it_dec(end(p.b))>>]

\* it1 = begin(), it2 = ++begin() and the walk, after the push_front that left p
insert_front_half(p, pos) == insert_walk_front(p, begin(p.b), it_inc(begin(p.b)), pos)

\* it1 = --(--end()), it2 = --end() and the walk, after the push_back that left p
insert_back_half(p, pos) == insert_walk_back(p, it_dec(it_dec(end(p.b))), it_dec(end(p.b)), pos)

\* insert that always pushes at the front and shifts from there
insert_from_front(c, pos, value, r) ==
  IF it_eq(pos, begin(c.b)) THEN insert_at_begin(push_front(c, value, r))
  ELSE IF it_eq(pos, end(c.b)) THEN insert_at_end(push_back(c, value, r))
  ELSE IF pos.cap = 0 THEN Undefined(c)
  ELSE insert_front_half(push_front(c, value, r), pos)

insert(c, pos, value, r) ==
  IF it_eq(pos, begin(c.b)) THEN insert_at_begin(push_front(c, value, r))
  ELSE IF it_eq(pos, end(c.b)) THEN insert_at_end(push_back(c, value, r))
  ELSE IF pos.cap = 0 THEN Undefined(c)
  ELSE IF get_pos(pos) <= c.b.sz \div 2 THEN insert_front_half(push_front(c, value, r), pos)
  ELSE insert_back_half(push_back(c, value, r), pos)

\* erase, front half: while (it2 != begin()) { it1 = it2 - 1; swap; it2--; }
RECURSIVE erase_walk_front(_, _)
erase_walk_front(c, it2) ==
  IF c.out # "ok" THEN c
  ELSE IF it_eq(it2, begin(c.b)) THEN c
  ELSE IF ~Live(c.h, it_minus(it2, 1)) \/ ~Live(c.h, it2) THEN Undefined(c)
  ELSE erase_walk_front(elem_swap(c, it_minus(it2, 1), it2), it_dec(it2))

\* erase, back half: while (it2 != end()) { swap; it1++; it2++; }
RECURSIVE erase_walk_back(_, _, _)
erase_walk_back(c, it1, it2) ==
  IF c.out # "ok" THEN c
  ELSE IF it_eq(it2, end(c.b)) THEN c
  ELSE IF ~Live(c.h, it1) \/ ~Live(c.h, it2) THEN Undefined(c)
  ELSE erase_walk_back(elem_swap(c, it1, it2), it_inc(it1), it_inc(it2))

\* pop_front(); return begin();
erase_first(p) == [p EXCEPT !.ret = <<begin(p.b)>>]

\* pop_back(); return --end();
erase_last(p) == [p EXCEPT !.ret = <<it_dec(end(p.b))>>]

\* pop_front(); return iterator(ind_pos_mem, cap, data, ind_begin) + 1;
\* after the walk that left w
erase_front_half(w, mem) ==
  IF w.out # "ok" THEN w
  ELSE [pop_front(w) EXCEPT !.ret = <<it_plus(iterator(mem, w.b.cap, w.b.data,
                                                       (w.b.ind_begin + 1) % w.b.cap), 1)>>]

\* pop_back(); return iterator(ind_pos_mem, cap, data, ind_begin);
erase_back_half(w, mem) ==
  IF w.out # "ok" THEN w
  ELSE [pop_back(w) EXCEPT !.ret = <<iterator(mem, w.b.cap, w.b.data, w.b.ind_begin)>>]

\* erase past its assertion: rel is pos.get_pos()
erase_at(c, pos, rel) ==
  IF it_eq(pos, begin(c.b)) THEN erase_first(pop_front(c))
  ELSE IF it_eq(pos, it_dec(end(c.b))) THEN erase_last(pop_back(c))
  ELSE IF rel <= c.b.sz \div 2
  THEN erase_front_half(
         erase_walk_front(c, iterator((rel + c.b.ind_begin) % c.b.cap, c.b.cap, c.b.data, c.b.ind_begin)),
         (rel + c.b.ind_begin) % c.b.cap)
  ELSE erase_back_half(
         erase_walk_back(c,
           iterator((rel + c.b.ind_begin) % c.b.cap, c.b.cap, c.b.data, c.b.ind_begin),
           it_plus(iterator((rel + c.b.ind_begin) % c.b.cap, c.b.cap, c.b.data, c.b.ind_begin), 1)),
         (rel + c.b.ind_begin) % c.b.cap)

\* pos.get_pos() of an iterator with cap = 0 divides by zero: u = "trap" is
\* the hardware trap, u = "value" a machine whose remainder by zero is the
\* dividend.
erase(c, pos, u) ==
  IF pos.cap = 0 /\ u = "trap" THEN [c EXCEPT !.out = "trap"]
  ELSE IF ~((IF pos.cap = 0 THEN pos.ind + pos.cap - pos.ind_begin ELSE get_pos(pos)) < c.b.sz)
  THEN [c EXCEPT !.out = "assert"]
  ELSE erase_at(c, pos, IF pos.cap = 0 THEN pos.ind + pos.cap - pos.ind_begin ELSE get_pos(pos))

\* ============================================================ the machine
VARIABLES
  bufs,   \* bufs[x]: the five fields of buffer x
  alive,  \* alive[x]: buffer x is constructed and not yet destroyed
  heap,   \* heap[p]: the block allocated at address p, <<>> when none is
  list,   \* list[x]: the plain ordered list driven by the pushes and pops on
          \* x; any other operation sets it to the contents it leaves
  last,   \* the last call that changed the state or failed: operation,
          \* buffer, arguments, how and where it ended, and the size and
          \* capacity the buffer had before it and whether its live range
          \* wrapped around the end of the block
  ret,    \* <<it>>: the iterator the last insert or erase returned
  orig,   \* the contents before the last insert or erase; an erase of the
          \* iterator an insert returned keeps those before that insert
  held    \* <<h>>: an iterator h.it the caller took from buffer h.who and
          \* keeps across calls; h.gen: the buffer was neither reallocated
          \* nor cleared since; h.live: nor was the slot h.it refers to
          \* destroyed since

vars == <<bufs, alive, heap, list, last, ret, orig, held>>

Init ==
  /\ bufs = [x \in Names |-> circular_buffer]
  /\ alive = [x \in Names |-> x = "a"]
  /\ heap = [p \in Addr |-> <<>>]
  /\ list = [x \in Names |-> <<>>]
  /\ last = [op |-> "init", who |-> "a", k |-> 0, v |-> 0, out |-> "ok", stage |-> "none",
             sz |-> 0, cap |-> 0, src |-> "a", wrap |-> FALSE]
  /\ ret = <<>>
  /\ orig = <<>>
  /\ held = <<>>

\* an assertion failure aborts the program; undefined behaviour ends the model
Running == last.out \in {"ok", "throw"}

\* the injected failure points: none, or the f-th fallible step of a call
\* that makes n of them
Fuels(n, maxf) == {NoFail} \cup {f \in 0..maxf : f < n}

\* the fallible steps of the call that ended in c when started with
\* maxf + 1 of them succeeding
Used(c, maxf) == IF c.out = "throw" THEN maxf + 1 ELSE maxf + 1 - c.fuel

\* a push on b calls reserve past its size test
Grows(b) == b.sz = 0 \/ b.sz = b.cap - 1

\* where the allocator may start its scan: at any free address
Scan == IF \E p \in Addr : heap[p] = <<>> THEN {p \in Addr : heap[p] = <<>>} ELSE {1}

Starts(b) == IF Grows(b) THEN Scan ELSE {1}

\* the position begin() + k of a buffer, as a caller obtains it
Fresh(b, k) == IF k = 0 THEN begin(b) ELSE IF k = b.sz THEN end(b) ELSE it_plus(begin(b), k)

InsertAt(s, k, v) == SubSeq(s, 1, k) \o <<v>> \o SubSeq(s, k + 1, Len(s))

RemoveAt(s, k) == SubSeq(s, 1, k) \o SubSeq(s, k + 2, Len(s))

\* what a call that ended in out did: a walk that leaves the live range
\* never returns ("hang") or faults ("trap")
Outcomes(out) == IF out = "ub" THEN {"hang", "trap"} ELSE {out}

\* the iterator h a caller holds, after a call on x that ended in c
Keep(h, x, c) ==
  IF h.who # x THEN h
  ELSE [h EXCEPT !.gen = @ /\ c.b.data = bufs[x].data,
                 !.live = @ /\ h.gen /\ c.b.data = bufs[x].data /\ Live(c.h, h.it)]

\* the call op on x ended in context c (the arguments of a call that threw
\* are not recorded)
CommitFrom(x, y, op, k, v, c, newlist, neworig) ==
  /\ bufs' = [bufs EXCEPT ![x] = c.b]
  /\ heap' = c.h
  /\ \E o \in Outcomes(c.out) :
       last' = [op |-> op, who |-> x,
                k |-> IF c.out = "throw" THEN 0 ELSE k,
                v |-> IF c.out = "throw" THEN 0 ELSE v,
                out |-> o, stage |-> c.stage,
                sz |-> bufs[x].sz, cap |-> bufs[x].cap, src |-> y,
                wrap |-> bufs[x].ind_begin > bufs[x].ind_end]
  /\ ret' = IF op \in {"insert", "erase", "erase_ret"} THEN c.ret ELSE <<>>
  /\ list' = [list EXCEPT ![x] =
                IF op \in {"push_back", "push_front", "pop_back", "pop_front"}
                THEN IF c.out = "ok" THEN newlist ELSE @
                ELSE Contents(c.b, c.h)]
  /\ orig' = neworig
  /\ held' = IF held = <<>> \/ op = "erase_held" THEN <<>> ELSE <<Keep(held[1], x, c)>>

Commit(x, op, k, v, c, newlist, neworig) ==
  /\ CommitFrom(x, x, op, k, v, c, newlist, neworig)
  /\ alive' = alive

\* an accessor: it changes nothing unless its assertion fails
Observe(x, op, k, c) ==
  IF c.out = "ok" THEN UNCHANGED vars
  ELSE Commit(x, op, k, 0, c, <<>>, <<>>)

PushBack(x, max, maxf) ==
  /\ Running /\ alive[x] /\ bufs[x].sz < max
  /\ \E v \in Values, r \in Starts(bufs[x]),
        fuel \in Fuels(Used(push_back(Ctx(bufs[x], heap, maxf + 1), 1, 1), maxf), maxf) :
       Commit(x, "push_back", 0, v, push_back(Ctx(bufs[x], heap, fuel), v, r),
              Append(list[x], v), <<>>)

PushFront(x, max, maxf) ==
  /\ Running /\ alive[x] /\ bufs[x].sz < max
  /\ \E v \in Values, r \in Starts(bufs[x]),
        fuel \in Fuels(Used(push_front(Ctx(bufs[x], heap, maxf + 1), 1, 1), maxf), maxf) :
       Commit(x, "push_front", 0, v, push_front(Ctx(bufs[x], heap, fuel), v, r),
              <<v>> \o list[x], <<>>)

PopBack(x) ==
  /\ Running /\ alive[x]
  /\ Commit(x, "pop_back", 0, 0, pop_back(Ctx(bufs[x], heap, NoFail)),
            SubSeq(list[x], 1, Len(list[x]) - 1), <<>>)

PopFront(x) ==
  /\ Running /\ alive[x]
  /\ Commit(x, "pop_front", 0, 0, pop_front(Ctx(bufs[x], heap, NoFail)),
            SubSeq(list[x], 2, Len(list[x])), <<>>)

Back(x) ==
  /\ Running /\ alive[x]
  /\ Observe(x, "back", 0, back(Ctx(bufs[x], heap, NoFail)))

Front(x) ==
  /\ Running /\ alive[x]
  /\ Observe(x, "front", 0, front(Ctx(bufs[x], heap, NoFail)))

Index(x) ==
  /\ Running /\ alive[x]
  /\ \E i \in 0..bufs[x].sz : Observe(x, "index", i, index(Ctx(bufs[x], heap, NoFail), i))

Clear(x) ==
  /\ Running /\ alive[x]
  /\ Commit(x, "clear", 0, 0, clear(Ctx(bufs[x], heap, NoFail)), <<>>, <<>>)

\* insert(begin() + k, v)
Insert(x, max, maxf) ==
  /\ Running /\ alive[x] /\ bufs[x].sz < max
  /\ \E k \in 0..bufs[x].sz, v \in Values, r \in Starts(bufs[x]) :
     \E fuel \in Fuels(Used(insert(Ctx(bufs[x], heap, maxf + 1), Fresh(bufs[x], k), 1, 1), maxf), maxf) :
       Commit(x, "insert", k, v, insert(Ctx(bufs[x], heap, fuel), Fresh(bufs[x], k), v, r),
              <<>>, Contents(bufs[x], heap))

\* erase(begin() + k), k up to one past end()
Erase(x, maxf) ==
  /\ Running /\ alive[x]
  /\ \E k \in {j \in 0..(bufs[x].sz + 1) : j = 0 \/ j < bufs[x].cap},
        u \in (IF bufs[x].cap = 0 THEN {"trap", "value"} ELSE {"value"}) :
     \E fuel \in Fuels(Used(erase(Ctx(bufs[x], heap, maxf + 1), Fresh(bufs[x], k), "value"), maxf), maxf) :
       Commit(x, "erase", k, 0, erase(Ctx(bufs[x], heap, fuel), Fresh(bufs[x], k), u),
              <<>>, Contents(bufs[x], heap))

\* erase(it) with it the iterator that the insert just before returned
EraseRet(x) ==
  /\ Running /\ alive[x]
  /\ last.op = "insert" /\ last.who = x /\ last.out = "ok"
  /\ Commit(x, "erase_ret", last.k, 0, erase(Ctx(bufs[x], heap, NoFail), ret[1], "value"),
            <<>>, orig)

\* it = begin() + k, an iterator to an element, kept by the caller
Take(x) ==
  /\ Running /\ alive[x] /\ held = <<>>
  /\ \E k \in 0..(bufs[x].sz - 1) :
       held' = <<[it |-> Fresh(bufs[x], k), who |-> x, gen |-> TRUE, live |-> TRUE]>>
  /\ UNCHANGED <<bufs, alive, heap, list, last, ret, orig>>

\* the logical position of the element in the slot it refers to
Position(b, it) == (it.ind - b.ind_begin + b.cap) % b.cap

\* erase(it) with the iterator the caller holds, while it is valid
EraseHeld(x) ==
  /\ Running /\ alive[x]
  /\ held # <<>> /\ held[1].who = x /\ held[1].gen /\ held[1].live
  /\ Commit(x, "erase_held", Position(bufs[x], held[1].it), 0,
            erase(Ctx(bufs[x], heap, NoFail), held[1].it, "value"),
            <<>>, Contents(bufs[x], heap))

\* x = y
Assign(x, y, maxf) ==
  /\ Running /\ alive[x] /\ alive[y]
  /\ \E r \in Scan, fuel \in Fuels(Used(assign(Ctx(bufs[x], heap, maxf + 1), bufs[y], 1), maxf), maxf) :
       /\ CommitFrom(x, y, "assign", 0, 0, assign(Ctx(bufs[x], heap, fuel), bufs[y], r), <<>>, <<>>)
       /\ alive' = alive

\* circular_buffer x(y): x is constructed only when the copy does not throw
CopyConstruct(x, y, maxf) ==
  /\ Running /\ ~alive[x] /\ alive[y]
  /\ \E r \in Scan, fuel \in Fuels(Used(copy_construct(bufs[y], heap, maxf + 1, 1), maxf), maxf) :
       /\ CommitFrom(x, y, "copy", 0, 0, copy_construct(bufs[y], heap, fuel, r), <<>>, <<>>)
       /\ alive' = [alive EXCEPT ![x] = (last'.out = "ok")]

\* ~circular_buffer() of x
Destruct(x) ==
  /\ Running /\ alive[x]
  /\ CommitFrom(x, x, "destroy", 0, 0, clear(Ctx(bufs[x], heap, NoFail)), <<>>, <<>>)
  /\ alive' = [alive EXCEPT ![x] = FALSE]

\* x.swap(y)
Swap(x, y) ==
  /\ Running /\ alive[x] /\ alive[y]
  /\ bufs' = [bufs EXCEPT ![x] = swap(bufs[x], bufs[y]).this, ![y] = swap(bufs[x], bufs[y]).oth]
  /\ list' = [list EXCEPT ![x] = list[y], ![y] = list[x]]
  /\ last' = [op |-> "swap", who |-> x, k |-> 0, v |-> 0, out |-> "ok", stage |-> "none",
              sz |-> bufs[x].sz, cap |-> bufs[x].cap, src |-> y,
              wrap |-> bufs[x].ind_begin > bufs[x].ind_end]
  /\ ret' = <<>>
  /\ orig' = <<>>
  /\ UNCHANGED <<heap, alive, held>>

Next ==
  \/ PushBack("a", MaxSize, MaxFuel)
  \/ PushFront("a", MaxSize, MaxFuel)
  \/ PopBack("a")
  \/ PopFront("a")
  \/ Back("a")
  \/ Front("a")
  \/ Index("a")
  \/ Clear("a")
  \/ Insert("a", MaxSize, MaxFuel)
  \/ Erase("a", MaxFuel)
  \/ EraseRet("a")
  \/ Assign("a", "a", MaxFuel)
  \/ Destruct("a")

Spec == Init /\ [][Next]_vars

\* no failure is injected
NoInject == 0 - 1

\* two buffers: a, and b copy-constructed from a and destroyed again
NextCopy ==
  \/ \E x \in Names : PushBack(x, MaxSizeCopy, NoInject)
  \/ \E x \in Names : PushFront(x, MaxSizeCopy, NoInject)
  \/ \E x \in Names : PopBack(x)
  \/ \E x \in Names : PopFront(x)
  \/ \E x \in Names : Clear(x)
  \/ \E x \in Names : Insert(x, MaxSizeCopy, NoInject)
  \/ \E x \in Names : Erase(x, NoInject)
  \/ \E x \in Names, y \in Names : Assign(x, y, NoInject)
  \/ CopyConstruct("b", "a", MaxFuel)
  \/ Destruct("b")
  \/ Swap("a", "b")

SpecCopy == Init /\ [][NextCopy]_vars

\* one buffer that grows: pushes up to MaxPush elements, pops at the front
NextGrow ==
  \/ PushBack("a", MaxPush, NoInject)
  \/ PushFront("a", MaxPush, NoInject)
  \/ PopFront("a")

SpecGrow == Init /\ [][NextGrow]_vars

\* the capacities of the shifting specification: 4 is what reserve(4) gives,
\* 8 and 16 what push_back grows it to, 6 what push_front grows it to
Caps == {4, 6, 8, 16}

\* a block of cap slots at begin index b0 with the n elements 1, 2, 1, 2, ...
BuiltBlock(n, cap, b0) ==
  [s \in 1..cap |-> IF (s - 1 - b0 + cap) % cap < n
                    THEN (((s - 1 - b0 + cap) % cap) % 2) + 1
                    ELSE NoVal]

\* the buffer of those n elements in the block at address 1
Built(n, cap, b0) ==
  [sz |-> n, cap |-> cap, data |-> 1, ind_begin |-> b0, ind_end |-> (b0 + n) % cap]

\* a buffer as pushes and pops leave it: 1 to MaxShift elements, fewer than
\* the capacity, at any begin index
InitShift ==
  \E cap \in Caps, n \in 1..MaxShift, b0 \in 0..(2 * MaxShift) :
    /\ n < cap /\ b0 < cap
    /\ bufs = [x \in Names |-> IF x = "a" THEN Built(n, cap, b0) ELSE circular_buffer]
    /\ heap = [p \in Addr |-> IF p = 1 THEN BuiltBlock(n, cap, b0) ELSE <<>>]
    /\ alive = [x \in Names |-> x = "a"]
    /\ list = [x \in Names |-> IF x = "a"
                                THEN Contents(Built(n, cap, b0), [p \in Addr |-> BuiltBlock(n, cap, b0)])
                                ELSE <<>>]
    /\ last = [op |-> "init", who |-> "a", k |-> 0, v |-> 0, out |-> "ok", stage |-> "none",
               sz |-> 0, cap |-> 0, src |-> "a", wrap |-> FALSE]
    /\ ret = <<>>
    /\ orig = <<>>
    /\ held = <<>>

\* one insert or one erase on the buffer built
NextShift ==
  \/ last.op = "init" /\ Insert("a", MaxShift + 1, NoInject)
  \/ last.op = "init" /\ Erase("a", NoInject)

SpecShift == InitShift /\ [][NextShift]_vars

\* one buffer and an iterator the caller keeps across pushes, pops and clear
NextIter ==
  \/ PushBack("a", MaxSizeIter, NoInject)
  \/ PushFront("a", MaxSizeIter, NoInject)
  \/ PopBack("a")
  \/ PopFront("a")
  \/ Clear("a")
  \/ Take("a")
  \/ EraseHeld("a")

SpecIter == Init /\ [][NextIter]_vars

\* ================================================================ claims
Alive == {x \in Names : alive[x]}

\* *it of an iterator of the buffer b
Deref(b, it) == Slot(heap, it.data, it.ind)

\* the slots of the block of b that hold a constructed element
Constructed(b) == {i \in 0..(b.cap - 1) : Slot(heap, b.data, i) # NoVal}

\* C1: the buffer refines the plain list driven by the same pushes and pops:
\* size() is the length of the list, operator[](i) its i-th element, front()
\* its first and back() its last element, across every reallocation.
C1_RefinesList ==
  \A x \in Alive :
    /\ bufs[x].sz = Len(list[x])
    /\ \A i \in 0..(bufs[x].sz - 1) :
         index(Ctx(bufs[x], heap, NoFail), i).ret = <<list[x][i + 1]>>
    /\ bufs[x].sz > 0 =>
         /\ front(Ctx(bufs[x], heap, NoFail)).ret = <<list[x][1]>>
         /\ back(Ctx(bufs[x], heap, NoFail)).ret = <<list[x][Len(list[x])]>>

\* a push_back that reallocated a wrapped buffer of three elements
C1_Witness ==
  /\ last.op = "push_back" /\ last.out = "ok" /\ last.sz = 3 /\ last.cap = 4
  /\ bufs["a"].cap = 8 /\ list["a"] = <<2, 1, 2, 1>>

\* C2: size < capacity whenever capacity > 0, and begin_index = end_index
\* exactly when the buffer is empty.
C2_SizeBelowCapacity ==
  \A x \in Alive :
    /\ bufs[x].cap > 0 => bufs[x].sz < bufs[x].cap
    /\ bufs[x].cap = 0 => bufs[x].sz = 0
    /\ (bufs[x].ind_begin = bufs[x].ind_end) <=> (bufs[x].sz = 0)

\* a push_front that grew the block from the size: 2 * 3 slots for 4 elements
C2_Witness ==
  /\ last.op = "push_front" /\ last.out = "ok" /\ last.sz = 3 /\ last.cap = 4
  /\ bufs["a"].cap = 6 /\ bufs["a"].sz = 4

\* C3: end_index = (begin_index + size) mod capacity (both 0 when the
\* capacity is 0), and the constructed slots of the block are exactly the
\* slots (begin_index + i) mod capacity, 0 <= i < size.
C3_LiveRange ==
  \A x \in Alive :
    /\ (bufs[x].cap = 0) <=> (bufs[x].data = nullptr)
    /\ bufs[x].cap = 0 => bufs[x].ind_begin = 0 /\ bufs[x].ind_end = 0
    /\ bufs[x].cap > 0 =>
         /\ Len(heap[bufs[x].data]) = bufs[x].cap
         /\ bufs[x].ind_end = (bufs[x].ind_begin + bufs[x].sz) % bufs[x].cap
         /\ Constructed(bufs[x]) =
              {(bufs[x].ind_begin + i) % bufs[x].cap : i \in 0..(bufs[x].sz - 1)}

\* a pop_back that left a live range wrapping around the end of the block
C3_Witness ==
  /\ last.op = "pop_back" /\ last.out = "ok"
  /\ bufs["a"].sz = 2 /\ bufs["a"].ind_begin = bufs["a"].cap - 1

\* C4: insert at a fresh position k that needs no reallocation
\* (0 < size < capacity - 1) returns, leaves s[0..k-1], v, s[k..n-1], makes
\* the size one more, and returns an iterator to v at logical position k.
C4_InsertInPlace ==
  (last.op = "insert" /\ 0 < last.sz /\ last.sz < last.cap - 1) =>
    /\ last.out \in {"ok", "throw"}
    /\ last.out = "ok" =>
         /\ Contents(bufs[last.who], heap) = InsertAt(orig, last.k, last.v)
         /\ bufs[last.who].sz = last.sz + 1
         /\ Len(ret) = 1
         /\ Deref(bufs[last.who], ret[1]) = last.v
         /\ get_pos(ret[1]) = last.k

\* an insert in the back half of a wrapped buffer that did not reallocate
C4_Witness ==
  /\ last.op = "insert" /\ last.out = "ok" /\ last.sz = 3 /\ last.cap = 6
  /\ last.k = 2 /\ bufs["a"].ind_end < bufs["a"].ind_begin

\* C5: erase at a fresh position k < n leaves s without its k-th element
\* and returns an iterator to logical position k of the new sequence, which
\* is end() when the last element was erased.
C5_EraseReturnsNext ==
  (last.op = "erase" /\ last.k < last.sz) =>
    /\ last.out \in {"ok", "throw"}
    /\ last.out = "ok" =>
         /\ Contents(bufs[last.who], heap) = RemoveAt(orig, last.k)
         /\ bufs[last.who].sz = last.sz - 1
         /\ Len(ret) = 1
         /\ get_pos(ret[1]) = last.k
         /\ it_eq(ret[1], Fresh(bufs[last.who], last.k))

\* C6: insert(it, v) at any fresh position returns, and erase of the
\* iterator it returned restores the sequence there was before the insert.
C6_RoundTrip ==
  /\ last.op = "insert" => last.out \in {"ok", "throw"}
  /\ last.op = "erase_ret" => last.out = "ok" /\ Contents(bufs[last.who], heap) = orig

\* the last call violated its precondition
Violation ==
  \/ last.op \in {"pop_back", "pop_front", "front", "back"} /\ last.sz = 0
  \/ last.op \in {"index", "erase"} /\ last.k >= last.sz

\* C7: every contract violation ends in a failed assertion, with the size
\* and the capacity untouched.
C7_ViolationsAsserted ==
  Violation =>
    /\ last.out = "assert"
    /\ bufs[last.who].sz = last.sz
    /\ bufs[last.who].cap = last.cap

Invariants123 == C2_SizeBelowCapacity /\ C3_LiveRange

\* C8: a push whose growth step throws (operator new, or the copy of an
\* element during the migration) leaves the buffer and the whole heap as
\* they were, the new block released; a push whose copy of the pushed value
\* throws leaves the size and the sequence as they were, invariants 1-3 kept.
C8_GrowthIsStrong ==
  [][(last'.op \in {"push_back", "push_front"} /\ last'.out = "throw") =>
       IF last'.stage \in {"alloc", "migrate"}
       THEN bufs' = bufs /\ heap' = heap
       ELSE /\ last'.stage = "value"
            /\ bufs'[last'.who].sz = bufs[last'.who].sz
            /\ Contents(bufs'[last'.who], heap') = Contents(bufs[last'.who], heap)
            /\ Invariants123']_vars

\* a push_front whose migration threw with part of the new block constructed
C8_Witness ==
  /\ last.op = "push_front" /\ last.out = "throw" /\ last.stage = "migrate"
  /\ last.sz = 3 /\ bufs["a"].ind_end < bufs["a"].ind_begin

\* C10: no push, pop, insert or erase leaves a capacity below the one it
\* found.
C10_CapacityNeverShrinks ==
  last.op \in {"push_back", "push_front", "pop_back", "pop_front", "insert", "erase", "erase_ret"}
    => bufs[last.who].cap >= last.cap

\* the block of buffer x, <<>> when it has none
Block(x) == IF bufs[x].data = nullptr THEN <<>> ELSE heap[bufs[x].data]

\* the last call acted on last.who alone
Mutator == {"push_back", "push_front", "pop_back", "pop_front", "insert", "erase", "clear"}

\* C9: a copy (construction or assignment from another buffer) holds the
\* sequence of its source in a block of its own; a mutating operation on one
\* buffer leaves the fields and the block of every other buffer as they
\* were; x = x leaves the sequence of x as it was.
C9_DeepCopy ==
  [][/\ (last'.op \in {"copy", "assign"} /\ last'.out = "ok") =>
          /\ Contents(bufs'[last'.who], heap') = Contents(bufs[last'.src], heap)
          /\ last'.who # last'.src =>
               /\ Contents(bufs'[last'.src], heap') = Contents(bufs[last'.src], heap)
               /\ bufs'[last'.who].data # bufs'[last'.src].data \/ bufs'[last'.who].sz = 0
     /\ last'.op \in Mutator =>
          \A y \in Alive \ {last'.who} : bufs'[y] = bufs[y] /\ Block(y)' = Block(y)]_vars

\* a push on the copy b of a while a holds two elements in a block of its own
C9_Witness ==
  /\ last.op = "push_back" /\ last.who = "b" /\ last.out = "ok" /\ last.sz = 1
  /\ alive["b"] /\ bufs["a"].sz = 2 /\ bufs["b"].data # bufs["a"].data
  /\ Contents(bufs["a"], heap) = <<1, 2>> /\ Contents(bufs["b"], heap) = <<1, 2>>

C12_GrowthPolicy ==
  [][/\ (last'.op \in {"push_back", "push_front"} /\ last'.out = "ok") =>
          /\ bufs[last'.who].sz = 0 => bufs'[last'.who].cap = 4
          /\ (bufs[last'.who].sz # 0 /\ bufs[last'.who].sz = bufs[last'.who].cap - 1) =>
               IF last'.op = "push_back"
               THEN bufs'[last'.who].cap = 2 * bufs[last'.who].cap
               ELSE /\ bufs'[last'.who].cap = 2 * bufs[last'.who].sz
                    /\ bufs'[last'.who].cap = 2 * bufs[last'.who].cap - 2
          /\ (0 < bufs[last'.who].sz /\ bufs[last'.who].sz < bufs[last'.who].cap - 1) =>
               /\ bufs'[last'.who].cap = bufs[last'.who].cap
               /\ bufs'[last'.who].data = bufs[last'.who].data
     /\ last'.op \in {"pop_back", "pop_front", "erase", "erase_ret"} =>
          /\ bufs'[last'.who].cap = bufs[last'.who].cap
          /\ bufs'[last'.who].data = bufs[last'.who].data]_vars

\* a push_back that doubled a full block of four slots
C12_Witness ==
  /\ last.op = "push_back" /\ last.out = "ok" /\ last.sz = 3 /\ last.cap = 4
  /\ bufs["a"].cap = 8 /\ bufs["a"].sz = 4

\* the capacity a push asks reserve for
Asked(op, b) == IF op = "push_back" THEN b.cap * 2 ELSE b.sz * 2

C14_InsertAtFullTerminates ==
  (last.op = "insert" /\ 0 < last.k /\ last.k < last.sz /\ last.sz = last.cap - 1) =>
    /\ last.out \in {"ok", "throw"}
    /\ last.out = "ok" =>
         /\ Contents(bufs[last.who], heap) = InsertAt(orig, last.k, last.v)
         /\ Len(ret) = 1
         /\ Deref(bufs[last.who], ret[1]) = last.v

\* C15: erase(it) with an iterator that is valid (no reallocation or clear
\* since it was taken, its slot not destroyed since) returns and removes the
\* element in the slot it refers to, also when begin_index moved since.
C15_EraseHeldElement ==
  last.op = "erase_held" =>
    /\ last.out = "ok"
    /\ bufs[last.who].sz = last.sz - 1
    /\ Contents(bufs[last.who], heap) = RemoveAt(orig, last.k)

\* C17: an iterator taken before a reallocation or a clear equals no
\* iterator begin() + k, 0 <= k <= size(), of the buffer after it.
C17_GenerationsDiffer ==
  (held # <<>> /\ ~held[1].gen) =>
    \A k \in 0..bufs[held[1].who].sz : ~it_eq(held[1].it, Fresh(bufs[held[1].who], k))

\* C16: for iterators begin() + i, begin() + j of one buffer state with
\* capacity > 0, 0 <= i, j <= size: their difference is i - j, < holds iff
\* i < j, == iff i = j, end() - begin() = size(), begin() + size() == end(),
\* and *(begin() + i) is operator[](i) for i < size.
C16_IteratorOrder ==
  \A x \in Alive :
    bufs[x].cap > 0 =>
      /\ \A i \in 0..bufs[x].sz, j \in 0..bufs[x].sz :
           /\ it_diff(it_plus(begin(bufs[x]), i), it_plus(begin(bufs[x]), j)) = i - j
           /\ it_lt(it_plus(begin(bufs[x]), i), it_plus(begin(bufs[x]), j)) <=> (i < j)
           /\ it_eq(it_plus(begin(bufs[x]), i), it_plus(begin(bufs[x]), j)) <=> (i = j)
      /\ it_diff(end(bufs[x]), begin(bufs[x])) = bufs[x].sz
      /\ it_eq(it_plus(begin(bufs[x]), bufs[x].sz), end(bufs[x]))
      /\ \A i \in 0..(bufs[x].sz - 1) :
           <<Deref(bufs[x], it_plus(begin(bufs[x]), i))>> = index(Ctx(bufs[x], heap, NoFail), i).ret

\* four elements wrapped around the end of the block: begin() + 3 has a
\* smaller physical index than begin() and is three positions after it
C16_Witness ==
  /\ bufs["a"].sz = 4 /\ bufs["a"].ind_begin > bufs["a"].ind_end
  /\ it_plus(begin(bufs["a"]), 3).ind < begin(bufs["a"]).ind
  /\ it_diff(begin(bufs["a"]), it_plus(begin(bufs["a"]), 3)) = 0 - 3
  /\ it_lt(begin(bufs["a"]), it_plus(begin(bufs["a"]), 3))

\* more fallible steps than any call of the shifting specification makes
FuelAll == 3 * MaxShift + 8

\* the element copies the call that ended in c made, started with FuelAll
Copies(c) == FuelAll - c.fuel

\* the swaps of insert(begin() + k, v): one copy for the push, three a swap
InsertSwaps(b, h, k, v) == (Copies(insert(Ctx(b, h, FuelAll), Fresh(b, k), v, 1)) - 1) \div 3

\* the swaps of erase(begin() + k): three copies a swap
EraseSwaps(b, h, k) == Copies(erase(Ctx(b, h, FuelAll), Fresh(b, k), "value")) \div 3

\* C18: insert at a fresh position k of n elements, no reallocation needed,
\* makes k swaps when 0 < k <= n div 2, n - k swaps when n div 2 < k < n,
\* which is min(k, n - k), and none at k = 0 or k = n; erase at k makes k
\* swaps when 0 < k <= n div 2, n - 1 - k when n div 2 < k < n - 1, at most
\* min(k, n - k), and none at k = 0 or k = n - 1.
C18_ShorterSide ==
  [][/\ (/\ last'.op = "insert" /\ last'.out = "ok"
         /\ 0 < bufs["a"].sz /\ bufs["a"].sz < bufs["a"].cap - 1) =>
          /\ InsertSwaps(bufs["a"], heap, last'.k, last'.v) =
               IF last'.k = 0 \/ last'.k = bufs["a"].sz THEN 0
               ELSE IF last'.k <= bufs["a"].sz \div 2 THEN last'.k
               ELSE bufs["a"].sz - last'.k
          /\ InsertSwaps(bufs["a"], heap, last'.k, last'.v) = Min({last'.k, bufs["a"].sz - last'.k})
          /\ Copies(insert(Ctx(bufs["a"], heap, FuelAll), Fresh(bufs["a"], last'.k), last'.v, 1))
               = 1 + 3 * InsertSwaps(bufs["a"], heap, last'.k, last'.v)
     /\ (last'.op = "erase" /\ last'.out = "ok") =>
          /\ EraseSwaps(bufs["a"], heap, last'.k) =
               IF last'.k = 0 \/ last'.k = bufs["a"].sz - 1 THEN 0
               ELSE IF last'.k <= bufs["a"].sz \div 2 THEN last'.k
               ELSE bufs["a"].sz - 1 - last'.k
          /\ EraseSwaps(bufs["a"], heap, last'.k) <= Min({last'.k, bufs["a"].sz - last'.k})
          /\ Copies(erase(Ctx(bufs["a"], heap, FuelAll), Fresh(bufs["a"], last'.k), "value"))
               = 3 * EraseSwaps(bufs["a"], heap, last'.k)]_vars

\* an insert at the midpoint 5 of eleven elements that wrap around the end
\* of the block
C18_Witness ==
  /\ last.op = "insert" /\ last.out = "ok" /\ last.sz = 11 /\ last.k = 5 /\ last.wrap
  /\ bufs["a"].sz = 12 /\ bufs["a"].cap = 16

\* C19: an insert or erase in which an element copy of the swap walk throws
\* leaves the size and the sequence the buffer had before the call.
C19_ShiftIsStrong ==
  (last.op \in {"insert", "erase"} /\ last.out = "throw" /\ last.stage = "walk") =>
    /\ bufs[last.who].sz = last.sz
    /\ Contents(bufs[last.who], heap) = orig

\* for (it = first; it != last; ++it) visit(*it): the values visited, in
\* order.  A step onto a raw slot, or one more than n steps, ends the walk
\* with NoVal, which no element is.
RECURSIVE forward(_, _, _, _)
forward(h, it, e, n) ==
  IF it_eq(it, e) THEN <<>>
  ELSE IF n = 0 \/ ~Live(h, it) THEN <<NoVal>>
  ELSE <<Slot(h, it.data, it.ind)>> \o forward(h, it_inc(it), e, n - 1)

\* the same loop over reverse iterators with bases it and e: *r is *--tmp
\* of a copy tmp of the base, ++r is -- of the base, r != e compares bases
RECURSIVE backward(_, _, _, _)
backward(h, it, e, n) ==
  IF it_eq(it, e) THEN <<>>
  ELSE IF n = 0 \/ ~Live(h, it_dec(it)) THEN <<NoVal>>
  ELSE <<Slot(h, it_dec(it).data, it_dec(it).ind)>> \o backward(h, it_dec(it), e, n - 1)

Reverse(s) == [i \in 1..Len(s) |-> s[Len(s) + 1 - i]]

\* C20: the loop from begin() to end() with ++ makes size() steps and visits
\* operator[](0), ..., operator[](size() - 1) in this order, none for an
\* empty buffer, capacity 0 included; the loop from rbegin() to rend()
\* visits the same elements in the reverse order.
C20_Iteration ==
  \A x \in Alive :
    /\ forward(heap, begin(bufs[x]), end(bufs[x]), bufs[x].cap + 1) = Contents(bufs[x], heap)
    /\ Len(forward(heap, begin(bufs[x]), end(bufs[x]), bufs[x].cap + 1)) = bufs[x].sz
    /\ \A i \in 0..(bufs[x].sz - 1) :
         <<forward(heap, begin(bufs[x]), end(bufs[x]), bufs[x].cap + 1)[i + 1]>>
           = index(Ctx(bufs[x], heap, NoFail), i).ret
    /\ backward(heap, rbegin(bufs[x]), rend(bufs[x]), bufs[x].cap + 1)
         = Reverse(Contents(bufs[x], heap))

\* four elements that wrap around the end of the block, walked both ways
C20_Witness ==
  /\ bufs["a"].sz = 4 /\ bufs["a"].ind_begin > bufs["a"].ind_end
  /\ forward(heap, begin(bufs["a"]), end(bufs["a"]), bufs["a"].cap + 1) = <<1, 1, 2, 2>>
  /\ backward(heap, rbegin(bufs["a"]), rend(bufs["a"]), bufs["a"].cap + 1) = <<2, 2, 1, 1>>

====
